---- MODULE Spec2Model ----
(***************************************************************************)
(* Verification model of parser/create_phylowgs_inputs.py: the conversion  *)
(* of variant-caller output and CNV region calls into the SSM and CNV      *)
(* tables of PhyloWGS.                                                     *)
(*                                                                         *)
(* Conventions.  A Python float is modelled as an exact rational, a record *)
(* [n, d] in lowest terms with d > 0.  A value that may be None, or a cell  *)
(* that may be NaN, is <<>> when it is and <<v>> when it holds v.  A        *)
(* generator of the random module that the program has not seeded is None  *)
(* and may give any values; seeded with 1 it is <<c>> after c values.       *)
(* chromosome is the string the VCF or CNV file carries; int(chrom) is     *)
(* ChromInt.  List indices are those of Python plus one.  Every CNV region *)
(* carries a field "line", the line of the CNV file it was read from: it   *)
(* stands for the identity of the Python dict object.                      *)
(***************************************************************************)
EXTENDS Integers, Sequences, FiniteSets, TLC

VARIABLES
  pc,                         \* position in main()
  vcf_files,                  \* args.vcf_files: <<[vcf_type, records]>>
  missing_variant_confidence, \* args.missing_variant_confidence
  parsed_variants,            \* parse_variants: one list per sample
  all_variant_ids,            \* parse_variants: the identity list
  ref_read_counts,            \* variants x samples matrix
  total_read_counts,          \* variants x samples matrix
  variants,                   \* VariantAndCnvGroup._variants
  variant_idxs,               \* VariantAndCnvGroup._variant_idxs
  sample_size,                \* args.sample_size
  priority_ssms,              \* parse_priority_ssms(...)
  random_state,               \* the generator of the random module
  subsampled_vars,            \* format_variants()[0]
  nonsubsampled_vars,         \* format_variants()[1]
  cnv_file,                   \* the records of args.cnv_file, in file order
  only_normal_cn,             \* args.only_normal_cn
  cnv_confidence,             \* args.cnv_confidence
  read_length,                \* args.read_length
  estimated_read_depth,       \* VariantAndCnvGroup._estimated_read_depth
  cn_regions,                 \* VariantAndCnvGroup._cn_regions
  cellularity,                \* VariantAndCnvGroup._cellularity
  good_regions,               \* what _filter_multiple_abnormal_cn_regions last returned
  merged,                     \* format_and_merge_cnvs: merged before the scaling loop
  cnv_written                 \* the rows of each CNV file written, in call order

parseVars == <<vcf_files, missing_variant_confidence, parsed_variants,
               all_variant_ids>>
matrixVars == <<ref_read_counts, total_read_counts>>
groupVars == <<variants, variant_idxs>>
formatVars == <<sample_size, priority_ssms, random_state, subsampled_vars,
                nonsubsampled_vars>>
cnvArgs == <<cnv_file, only_normal_cn, cnv_confidence, read_length>>
cnvVars == <<estimated_read_depth, cn_regions, cellularity, good_regions, merged,
             cnv_written>>
vars == <<pc, parseVars, matrixVars, groupVars, formatVars, cnvArgs, cnvVars>>

None == <<>>
NaN == <<>>
Some(v) == <<v>>
ValueOf(x) == x[1]

(***************************************************************************)
(* Bounds of the model.                                                    *)
(***************************************************************************)
MaxVariants == 3
MaxSampleSize == 3

(***************************************************************************)
(* Sequences.                                                              *)
(***************************************************************************)
Range(s) == {s[i] : i \in DOMAIN s}

IsInjective(s) == \A i, j \in DOMAIN s : s[i] = s[j] => i = j

\* Every order random.shuffle can leave the list in.
Shuffles(s) ==
  {[i \in DOMAIN s |-> s[p[i]]] :
     p \in {q \in [DOMAIN s -> DOMAIN s] : IsInjective(q)}}

\* L[:n] and L[n:] of Python, for n >= 0.
Take(s, n) == SubSeq(s, 1, IF n < Len(s) THEN n ELSE Len(s))
Drop(s, n) == SubSeq(s, (IF n < Len(s) THEN n ELSE Len(s)) + 1, Len(s))

\* Keys are tuples of two integers, compared as Python compares tuples.
KeyLess(a, b) == a[1] < b[1] \/ (a[1] = b[1] /\ a[2] < b[2])

\* list.sort(key = ...): a stable sort.  keyed is a sequence of <<key, element>>.
RECURSIVE InsertKeyed(_, _)
InsertKeyed(sorted, x) ==
  IF sorted = <<>> THEN <<x>>
  ELSE IF KeyLess(x[1], sorted[Len(sorted)][1])
       THEN Append(InsertKeyed(SubSeq(sorted, 1, Len(sorted) - 1), x),
                   sorted[Len(sorted)])
       ELSE Append(sorted, x)

RECURSIVE SortKeyed(_)
SortKeyed(keyed) ==
  IF keyed = <<>> THEN <<>>
  ELSE InsertKeyed(SortKeyed(SubSeq(keyed, 1, Len(keyed) - 1)), keyed[Len(keyed)])

Elements(keyed) == [i \in DOMAIN keyed |-> keyed[i][2]]

(***************************************************************************)
(* Chromosomes.                                                            *)
(***************************************************************************)
\* str(i) for i in range(1, 23).
ChromNames ==
  <<"1", "2", "3", "4", "5", "6", "7", "8", "9", "10", "11", "12", "13",
    "14", "15", "16", "17", "18", "19", "20", "21", "22">>

\* int(chrom) for a chromosome string.
ChromInt(chrom) == CHOOSE i \in DOMAIN ChromNames : ChromNames[i] = chrom

variant_key(var) ==
  IF var.CHROM = "x" THEN <<100, var.POS>>
  ELSE IF var.CHROM = "y" THEN <<101, var.POS>>
  ELSE <<ChromInt(var.CHROM), var.POS>>

VariantId(chrom, pos) == [CHROM |-> chrom, POS |-> pos]

get_elements_at_indices(L, indices) == [i \in DOMAIN indices |-> L[indices[i]]]

(***************************************************************************)
(* Rationals: the values of Python floats.                                 *)
(***************************************************************************)
Abs(x) == IF x < 0 THEN -x ELSE x

RECURSIVE GCD(_, _)
GCD(a, b) == IF b = 0 THEN a ELSE GCD(b, a % b)

Rat(n, d) ==
  LET g == GCD(Abs(n), Abs(d))
      s == IF d < 0 THEN -1 ELSE 1
  IN [n |-> s * (n \div g), d |-> s * (d \div g)]

RatOfInt(i) == [n |-> i, d |-> 1]
RatAdd(a, b) == Rat(a.n * b.d + b.n * a.d, a.d * b.d)
RatSub(a, b) == Rat(a.n * b.d - b.n * a.d, a.d * b.d)
\* The cross factors are cancelled first, which keeps the products small.
RatMul(a, b) ==
  LET g1 == GCD(Abs(a.n), b.d)
      g2 == GCD(Abs(b.n), a.d)
  IN Rat((a.n \div g1) * (b.n \div g2), (a.d \div g2) * (b.d \div g1))
RatDiv(a, b) == RatMul(a, IF b.n < 0 THEN [n |-> -b.d, d |-> -b.n]
                                      ELSE [n |-> b.d, d |-> b.n])
\* The sign of n1/d1 - n2/d2 for d1, d2 > 0, by comparing the integer parts
\* and then the reciprocals of the fractional parts: no product is formed.
RECURSIVE CompareFractions(_, _, _, _)
CompareFractions(n1, d1, n2, d2) ==
  LET q1 == n1 \div d1
      q2 == n2 \div d2
      r1 == n1 % d1
      r2 == n2 % d2
  IN IF q1 # q2 THEN (IF q1 < q2 THEN -1 ELSE 1)
     ELSE IF r1 = 0 /\ r2 = 0 THEN 0
     ELSE IF r1 = 0 THEN -1
     ELSE IF r2 = 0 THEN 1
     ELSE CompareFractions(d2, r2, d1, r1)

RatLess(a, b) == CompareFractions(a.n, a.d, b.n, b.d) < 0
RatLeq(a, b) == CompareFractions(a.n, a.d, b.n, b.d) <= 0
RatMin(a, b) == IF RatLess(b, a) THEN b ELSE a
\* math.floor; \div rounds towards minus infinity.
RatFloor(a) == a.n \div a.d
\* int(x) truncates towards zero.
RatInt(a) == IF a.n >= 0 THEN a.n \div a.d ELSE -((-a.n) \div a.d)
\* round(x) of Python 2 rounds half away from zero.
RatRound(a) ==
  IF a.n >= 0 THEN (2 * a.n + a.d) \div (2 * a.d)
  ELSE -((2 * (-a.n) + a.d) \div (2 * a.d))

(***************************************************************************)
(* VariantAndCnvGroup.add_variants.                                        *)
(***************************************************************************)
RECURSIVE SumSeq(_)
SumSeq(s) == IF s = <<>> THEN 0 ELSE Head(s) + SumSeq(Tail(s))

\* _estimate_read_depth: the int 50 without variants, else np.nanmean of the
\* imputed (NaN-free) total_reads matrix, a float.
_estimate_read_depth(vs, totals) ==
  IF Len(vs) = 0
  THEN [is_int |-> TRUE, value |-> RatOfInt(50)]
  ELSE [is_int |-> FALSE,
        value |-> Rat(SumSeq([i \in DOMAIN totals |-> SumSeq(totals[i])]),
                      SumSeq([i \in DOMAIN totals |-> Len(totals[i])]))]

(***************************************************************************)
(* VariantFormatter and VariantAndCnvGroup.format_variants.                *)
(***************************************************************************)
\* args.error_rate, at its default 0.001.
error_rate == Rat(1, 1000)

\* VariantFormatter.format_variants: the rows of one group.  counter is
\* self._counter on entry; the id "s<n>" is modelled by its number n.
VariantFormatter_format_variants(vs, ref_counts, total_counts, rate, counter) ==
  [i \in DOMAIN vs |->
     [ssm_id |-> counter + (i - 1),
      chrom |-> vs[i].CHROM,
      pos |-> vs[i].POS,
      variant_name |-> <<vs[i].CHROM, "_", vs[i].POS>>,
      ref_reads |-> ref_counts[i],
      total_reads |-> total_counts[i],
      expected_ref_freq |-> RatSub(RatOfInt(1), rate),
      expected_var_freq |-> IF vs[i].CHROM \in {"x", "y", "m"}
                            THEN rate
                            ELSE RatSub(Rat(1, 2), rate)]]

\* The loop of format_variants over the shuffled indices: an index goes to
\* subsampled while there is room and its identity is a priority SSM, and to
\* remaining otherwise.
RECURSIVE SplitByPriority(_, _, _, _, _, _)
SplitByPriority(idxs, vs, size, priority, subsampled, remaining) ==
  IF idxs = <<>> THEN [subsampled |-> subsampled, remaining |-> remaining]
  ELSE LET variant == vs[Head(idxs)]
       IN IF Len(subsampled) < size /\ <<variant.CHROM, variant.POS>> \in priority
          THEN SplitByPriority(Tail(idxs), vs, size, priority,
                               Append(subsampled, Head(idxs)), remaining)
          ELSE SplitByPriority(Tail(idxs), vs, size, priority,
                               subsampled, Append(remaining, Head(idxs)))

\* Mutant: the group is left in shuffle order.
SortIdxsByVariantKey_NoSort(idxs, vs) == idxs

\* idxs.sort(key = lambda idx: variant_key(self._variants[idx]))
SortIdxsByVariantKey(idxs, vs) ==
  Elements(SortKeyed([i \in DOMAIN idxs |-> <<variant_key(vs[idxs[i]]), idxs[i]>>]))

\* Mutant: the priority variants already chosen are not counted in needed.
SubsampledIdxs_NeededNotReduced(split, size) ==
  split.subsampled \o Take(split.remaining, size)

\* Mutant: the leftover list starts one element late.
NonsubsampledIdxs_OffByOne(split, size) ==
  Drop(split.remaining, size - Len(split.subsampled) + 1)

\* subsampled + remaining[:needed] and remaining[needed:].
SubsampledIdxs(split, size) ==
  split.subsampled \o Take(split.remaining, size - Len(split.subsampled))
NonsubsampledIdxs(split, size) ==
  Drop(split.remaining, size - Len(split.subsampled))

\* random.random() after random.seed(1), in ten-thousandths, rounded down.
RandomValues == <<1343, 8474, 7637, 2550, 4954, 4494, 6515, 7887>>

\* int(random() * n) for the value number c + 1 of the seeded generator.
RandomBelow(n, c) == (RandomValues[c + 1] * n) \div 10000

\* The loop of random.shuffle (Python 2) from index i down: x[i] is swapped
\* with x[j], j = int(random() * (i + 1)) on the indices of Python.
RECURSIVE ShuffleFrom(_, _, _)
ShuffleFrom(x, i, c) ==
  IF i < 2 THEN x
  ELSE LET j == RandomBelow(i, c) + 1
       IN ShuffleFrom([x EXCEPT ![i] = x[j], ![j] = x[i]], i - 1, c + 1)

\* The lists random.shuffle(x) can leave: one when the generator was seeded,
\* any order when it was not.
random_shuffle(x, state) ==
  IF state = None THEN Shuffles(x)
  ELSE {ShuffleFrom(x, Len(x), ValueOf(state))}

\* The generator after random.shuffle(x).
AfterShuffle(x, state) ==
  IF state = None \/ Len(x) < 2 THEN state
  ELSE Some(ValueOf(state) + Len(x) - 1)

\* VariantAndCnvGroup.format_variants, the shuffle included.
format_variants ==
  /\ pc = "format_variants"
  /\ random_state' = AfterShuffle(variant_idxs, random_state)
  /\ \E shuffled \in random_shuffle(variant_idxs, random_state) :
       LET size == IF sample_size = None THEN Len(variant_idxs) ELSE ValueOf(sample_size)
           split == SplitByPriority(shuffled, variants, size, priority_ssms, <<>>, <<>>)
       IN /\ variant_idxs' = shuffled
          /\ IF Len(split.subsampled) > size
             THEN /\ pc' = "AssertionError"
                  /\ UNCHANGED <<subsampled_vars, nonsubsampled_vars>>
             ELSE LET subsampled == SortIdxsByVariantKey(SubsampledIdxs(split, size), variants)
                      nonsubsampled == SortIdxsByVariantKey(NonsubsampledIdxs(split, size), variants)
                      sub_rows == VariantFormatter_format_variants(
                                    get_elements_at_indices(variants, subsampled),
                                    get_elements_at_indices(ref_read_counts, subsampled),
                                    get_elements_at_indices(total_read_counts, subsampled),
                                    error_rate, 0)
                      non_rows == VariantFormatter_format_variants(
                                    get_elements_at_indices(variants, nonsubsampled),
                                    get_elements_at_indices(ref_read_counts, nonsubsampled),
                                    get_elements_at_indices(total_read_counts, nonsubsampled),
                                    error_rate, Len(subsampled))
                  IN /\ subsampled_vars' = sub_rows
                     /\ nonsubsampled_vars' = non_rows
                     /\ pc' = "write_variants"
  /\ UNCHANGED <<parseVars, matrixVars, variants, sample_size, priority_ssms,
                 cnvArgs, cnvVars>>

(***************************************************************************)
(* CNV regions: CnvParser, find_cellularity and the block filter.          *)
(***************************************************************************)
\* A defaultdict(list) is a function on its keys; a lookup of a missing key
\* gives the empty list.
Lookup(regions, chrom) == IF chrom \in DOMAIN regions THEN regions[chrom] ELSE <<>>

\* sorted(regions, key = lambda r: r['start'])
SortByStart(regions) ==
  Elements(SortKeyed([i \in DOMAIN regions |-> <<<<regions[i].start, 0>>, regions[i]>>]))

\* The record of a CNV file line without its chromosome column.
RegionOf(record) ==
  [start |-> record.start, end |-> record.end,
   major_cn |-> record.major_cn, minor_cn |-> record.minor_cn,
   cellular_prevalence |-> record.cellular_prevalence, line |-> record.line]

\* The lines of one chromosome, in file order.
RECURSIVE RecordsOfChrom(_, _)
RecordsOfChrom(file, chrom) ==
  IF file = <<>> THEN <<>>
  ELSE IF Head(file).chromosome = chrom
       THEN <<RegionOf(Head(file))>> \o RecordsOfChrom(Tail(file), chrom)
       ELSE RecordsOfChrom(Tail(file), chrom)

\* CnvParser.parse: the regions grouped by chromosome, each list sorted by start.
CnvParser_parse(file) ==
  [chrom \in {file[i].chromosome : i \in DOMAIN file} |->
     SortByStart(RecordsOfChrom(file, chrom))]

\* All regions of a chromosome map, as a set.
AllRegions(cnvs) == UNION {Range(cnvs[chrom]) : chrom \in DOMAIN cnvs}

\* find_cellularity: the largest prevalence of any region, 0 when it finds
\* none above 0.
find_cellularity(cnvs) ==
  LET prevs == {r.cellular_prevalence : r \in AllRegions(cnvs)} \cup {RatOfInt(0)}
  IN CHOOSE m \in prevs : \A q \in prevs : RatLeq(q, m)

_is_region_normal_cn(region) == region.major_cn = 1 /\ region.minor_cn = 1

\* The inner while loop of the block scan: the index after the last region
\* that follows idx with the start of reg[idx], or 0 when the assertion on
\* the end coordinate fails.
RECURSIVE SameCoordsEnd(_, _, _)
SameCoordsEnd(reg, idx, i) ==
  IF i <= Len(reg) /\ reg[i].start = reg[idx].start
  THEN IF reg[i].end = reg[idx].end THEN SameCoordsEnd(reg, idx, i + 1) ELSE 0
  ELSE i

\* Mutant: the first abnormal region of a block is kept whenever there is one.
BlockChoice_FirstAbnormal(regions_at_same_coords) ==
  LET abnormal_regions == SelectSeq(regions_at_same_coords,
                                    LAMBDA r : ~_is_region_normal_cn(r))
  IN IF Len(abnormal_regions) >= 1 THEN <<abnormal_regions[1]>> ELSE <<>>

\* What a block of regions at the same coordinates contributes.
BlockChoice(regions_at_same_coords) ==
  LET abnormal_regions == SelectSeq(regions_at_same_coords,
                                    LAMBDA r : ~_is_region_normal_cn(r))
  IN IF Len(abnormal_regions) = 1 THEN abnormal_regions ELSE <<>>

\* Mutant: after a block the walk resumes one region too far.
RECURSIVE FilterWalk_SkipsOne(_, _, _, _, _)
FilterWalk_SkipsOne(reg, idx, cell, good, steps) ==
  IF ~(idx <= Len(reg)) THEN [ok |-> TRUE, good |-> good, steps |-> steps]
  ELSE IF reg[idx].cellular_prevalence = cell
       THEN FilterWalk_SkipsOne(reg, idx + 1, cell, Append(good, reg[idx]),
                                Append(steps, <<idx>>))
       ELSE LET i == SameCoordsEnd(reg, idx, idx + 1)
            IN IF i = 0
               THEN [ok |-> FALSE, good |-> good, steps |-> steps]
               ELSE LET regions_at_same_coords == SubSeq(reg, idx, i - 1)
                    IN FilterWalk_SkipsOne(reg, i + 1, cell,
                                           good \o BlockChoice(regions_at_same_coords),
                                           Append(steps, [k \in 1..(i - idx) |-> idx + k - 1]))

\* The walk of _filter_multiple_abnormal_cn_regions over one chromosome, from
\* index idx.  steps lists, for every iteration, the indices it examined.
RECURSIVE FilterWalk(_, _, _, _, _)
FilterWalk(reg, idx, cell, good, steps) ==
  IF ~(idx <= Len(reg)) THEN [ok |-> TRUE, good |-> good, steps |-> steps]
  ELSE IF reg[idx].cellular_prevalence = cell
       THEN FilterWalk(reg, idx + 1, cell, Append(good, reg[idx]),
                       Append(steps, <<idx>>))
       ELSE LET i == SameCoordsEnd(reg, idx, idx + 1)
            IN IF i = 0
               THEN [ok |-> FALSE, good |-> good, steps |-> steps]
               ELSE LET regions_at_same_coords == SubSeq(reg, idx, i - 1)
                    IN FilterWalk(reg, idx + Len(regions_at_same_coords), cell,
                                  good \o BlockChoice(regions_at_same_coords),
                                  Append(steps, [k \in 1..(i - idx) |-> idx + k - 1]))

\* _filter_multiple_abnormal_cn_regions: ok is FALSE when the assertion of
\* the scan fails on some chromosome; good has a key for every chromosome a
\* region was appended for.
_filter_multiple_abnormal_cn_regions(regions, cell) ==
  LET walk == [chrom \in DOMAIN regions |-> FilterWalk(regions[chrom], 1, cell, <<>>, <<>>)]
  IN [ok |-> \A chrom \in DOMAIN regions : walk[chrom].ok,
      good |-> [chrom \in {c \in DOMAIN regions : walk[c].good # <<>>} |-> walk[chrom].good],
      steps |-> [chrom \in DOMAIN regions |-> walk[chrom].steps]]

(***************************************************************************)
(* CnvFormatter.                                                           *)
(***************************************************************************)
\* str.lower() on the chromosome names of the model.
Lower(str) ==
  CASE str = "X" -> "x"
    [] str = "Y" -> "y"
    [] str = "M" -> "m"
    [] OTHER -> str

\* str(n) for a copy number.
DigitNames == <<"0", "1", "2", "3", "4", "5", "6", "7", "8", "9">>
Str(n) == DigitNames[n + 1]

\* _max_reads: 1e6 * read_depth.
_max_reads(read_depth) == RatMul(RatOfInt(1000000), read_depth.value)

\* _find_overlapping_variants: the ssm ids of the formatted variants that lie
\* in the region, in the order of the variant list.
_find_overlapping_variants(chrom, cnv, vs) ==
  LET inside == SelectSeq(vs, LAMBDA v : /\ Lower(chrom) = Lower(v.chrom)
                                         /\ cnv.start <= v.pos
                                         /\ v.pos <= cnv.end)
  IN [i \in DOMAIN inside |-> inside[i].ssm_id]

\* Mutant: the variant fraction is added, not taken off.
_calc_ref_reads_Plus(cellular_prev, total_reads) ==
  LET vaf == RatDiv(cellular_prev, RatOfInt(2))
  IN RatInt(RatMul(RatAdd(RatOfInt(1), vaf), RatOfInt(total_reads)))

\* _calc_ref_reads: int((1 - cellular_prev / 2) * total_reads).
_calc_ref_reads(cellular_prev, total_reads) ==
  LET vaf == RatDiv(cellular_prev, RatOfInt(2))
  IN RatInt(RatMul(RatSub(RatOfInt(1), vaf), RatOfInt(total_reads)))

\* _calc_total_reads.  With the int read depth 50 of an empty variant list
\* the division by the read length is Python 2's integer division.
_calc_total_reads(cellular_prev, locus_start, locus_end, new_cn, read_depth, rlen) ==
  LET no_net_change == new_cn = 2
      delta_cn == IF no_net_change THEN RatOfInt(1) ELSE RatOfInt(new_cn - 2)
      region_length == locus_end - locus_start + 1
      fn == IF read_depth.is_int
            THEN RatOfInt((read_depth.value.n * region_length) \div rlen)
            ELSE RatDiv(RatMul(read_depth.value, RatOfInt(region_length)), RatOfInt(rlen))
      P == IF cellular_prev = RatOfInt(1) THEN Rat(999, 1000) ELSE cellular_prev
      d0 == RatDiv(
              RatMul(RatDiv(RatMul(delta_cn, delta_cn), RatOfInt(4)),
                     RatMul(fn, RatMul(P, RatSub(RatOfInt(2), P)))),
              RatAdd(RatOfInt(1), RatDiv(RatMul(delta_cn, P), RatOfInt(2))))
      d == IF no_net_change THEN RatMul(d0, Rat(rlen, 1000)) ELSE d0
  IN RatRound(RatMin(d, _max_reads(read_depth)))

\* _format_overlapping_variants
_format_overlapping_variants(ssm_ids, maj_cn, min_cn) ==
  [i \in DOMAIN ssm_ids |-> <<ssm_ids[i], Str(min_cn), Str(maj_cn)>>]

\* One dict yielded by _format_cnvs.
FormatCnv(chrom, cnv, vs, read_depth, rlen) ==
  LET total_reads == _calc_total_reads(cnv.cellular_prevalence, cnv.start, cnv.end,
                                       cnv.major_cn + cnv.minor_cn, read_depth, rlen)
  IN [chrom |-> chrom,
      start |-> cnv.start,
      end |-> cnv.end,
      major_cn |-> cnv.major_cn,
      minor_cn |-> cnv.minor_cn,
      cellular_prevalence |-> cnv.cellular_prevalence,
      ref_reads |-> _calc_ref_reads(cnv.cellular_prevalence, total_reads),
      total_reads |-> total_reads,
      overlapping_variants |->
        _format_overlapping_variants(_find_overlapping_variants(chrom, cnv, vs),
                                     cnv.major_cn, cnv.minor_cn),
      cnv_id |-> None,
      lines |-> <<cnv.line>>]

\* _format_cnvs: the regions of the chromosomes in the order cnvs.items()
\* yields them.  "lines" is not a key of the dict: it lists the CNV file
\* lines of the regions a row stands for, as the 'Merging' log lines do.
RECURSIVE _format_cnvs(_, _, _, _, _)
_format_cnvs(cnvs, chrom_order, vs, read_depth, rlen) ==
  IF chrom_order = <<>> THEN <<>>
  ELSE LET chrom == Head(chrom_order)
       IN [i \in DOMAIN cnvs[chrom] |-> FormatCnv(chrom, cnvs[chrom][i], vs, read_depth, rlen)]
          \o _format_cnvs(cnvs, Tail(chrom_order), vs, read_depth, rlen)

\* formatted.sort(key = lambda f: f['cellular_prevalence']), a stable sort.
RECURSIVE InsertByPrevalence(_, _)
InsertByPrevalence(sorted, x) ==
  IF sorted = <<>> THEN <<x>>
  ELSE IF RatLess(x.cellular_prevalence, sorted[Len(sorted)].cellular_prevalence)
       THEN Append(InsertByPrevalence(SubSeq(sorted, 1, Len(sorted) - 1), x),
                   sorted[Len(sorted)])
       ELSE Append(sorted, x)

RECURSIVE SortByPrevalence(_)
SortByPrevalence(formatted) ==
  IF formatted = <<>> THEN <<>>
  ELSE InsertByPrevalence(SortByPrevalence(SubSeq(formatted, 1, Len(formatted) - 1)),
                          formatted[Len(formatted)])

\* _merge_variants: the variants of cnv2 whose id cnv1 does not list are
\* appended to cnv1's list.
_merge_variants(list1, list2) ==
  LET cnv1_variant_names == {list1[i][1] : i \in DOMAIN list1}
  IN list1 \o SelectSeq(list2, LAMBDA v : v[1] \notin cnv1_variant_names)

\* The test of the merge loop.
ShouldMerge(current, last, cell) ==
  /\ current.cellular_prevalence = last.cellular_prevalence
  /\ last.cellular_prevalence = cell

\* Mutant: the merged row keeps the total of the region merged last.
MergeInto_NoSum(last, current) ==
  [last EXCEPT !.total_reads = current.total_reads,
               !.ref_reads = _calc_ref_reads(last.cellular_prevalence, current.total_reads),
               !.overlapping_variants =
                  _merge_variants(last.overlapping_variants, current.overlapping_variants),
               !.lines = last.lines \o current.lines]

\* The merge of current into last.
MergeInto(last, current) ==
  LET total == current.total_reads + last.total_reads
  IN [last EXCEPT !.total_reads = total,
                  !.ref_reads = _calc_ref_reads(last.cellular_prevalence, total),
                  !.overlapping_variants =
                     _merge_variants(last.overlapping_variants, current.overlapping_variants),
                  !.lines = last.lines \o current.lines]

\* The merge loop over the sorted list: the id "c<n>" is modelled by <<n>>.
RECURSIVE MergeLoop(_, _, _, _)
MergeLoop(merged_so_far, formatted, counter, cell) ==
  IF formatted = <<>> THEN merged_so_far
  ELSE LET current == Head(formatted)
           last == merged_so_far[Len(merged_so_far)]
       IN IF ShouldMerge(current, last, cell)
          THEN MergeLoop([merged_so_far EXCEPT ![Len(merged_so_far)] = MergeInto(last, current)],
                         Tail(formatted), counter, cell)
          ELSE MergeLoop(Append(merged_so_far, [current EXCEPT !.cnv_id = Some(counter)]),
                         Tail(formatted), counter + 1, cell)

\* Mutant: the counter starts at 0 although the first row has taken c0.
MergeFormatted_CounterFromZero(cnvs, chrom_order, vs, read_depth, rlen) ==
  LET formatted == SortByPrevalence(_format_cnvs(cnvs, chrom_order, vs, read_depth, rlen))
  IN IF Len(formatted) = 0 THEN <<>>
     ELSE MergeLoop(<<[formatted[1] EXCEPT !.cnv_id = Some(0)]>>, Tail(formatted), 0,
                    find_cellularity(cnvs))

\* CnvFormatter.format_and_merge_cnvs up to the scaling loop.
MergeFormatted(cnvs, chrom_order, vs, read_depth, rlen) ==
  LET formatted == SortByPrevalence(_format_cnvs(cnvs, chrom_order, vs, read_depth, rlen))
  IN IF Len(formatted) = 0 THEN <<>>
     ELSE MergeLoop(<<[formatted[1] EXCEPT !.cnv_id = Some(0)]>>, Tail(formatted), 1,
                    find_cellularity(cnvs))

\* The scaling loop that ends CnvFormatter.format_and_merge_cnvs: both counts
\* times the confidence, rounded.
ScaleByConfidence(rows, confidence) ==
  [i \in DOMAIN rows |->
     [rows[i] EXCEPT
        !.ref_reads = RatRound(RatMul(RatOfInt(rows[i].ref_reads), confidence)),
        !.total_reads = RatRound(RatMul(RatOfInt(rows[i].total_reads), confidence))]]

(***************************************************************************)
(* VariantAndCnvGroup: the CNV reconciliation and write_cnvs.              *)
(***************************************************************************)
has_cnvs == cn_regions # None

\* Mutant: only the end of a region is compared with the position.
VariantsInsideRegions_EndOnly(idxs, vs, regions) ==
  SelectSeq(idxs, LAMBDA vidx :
    \E i \in DOMAIN Lookup(regions, vs[vidx].CHROM) :
      vs[vidx].POS <= Lookup(regions, vs[vidx].CHROM)[i].end)

\* The loop of _filter_variants_outside_regions: the retained indices whose
\* variant lies in some region of its chromosome, in their order.
VariantsInsideRegions(idxs, vs, regions) ==
  SelectSeq(idxs, LAMBDA vidx :
    \E i \in DOMAIN Lookup(regions, vs[vidx].CHROM) :
      LET region == Lookup(regions, vs[vidx].CHROM)[i]
      IN region.start <= vs[vidx].POS /\ vs[vidx].POS <= region.end)

\* _print_variant_differences reads self._cn_regions[var.CHROM] for every
\* removed variant; self._cn_regions is a defaultdict, which gains the key.
TouchRemoved(regions, idxs, filtered, vs) ==
  LET removed == {vs[i].CHROM : i \in Range(idxs) \ Range(filtered)}
  IN [chrom \in DOMAIN regions \cup removed |-> Lookup(regions, chrom)]

\* Mutant: every normal-CN region is kept, clonal or not.
NormalClonalRegions_AnyPrevalence(regions, cell) ==
  LET kept == [chrom \in DOMAIN regions |->
                 SelectSeq(regions[chrom], LAMBDA region : _is_region_normal_cn(region))]
  IN [chrom \in {c \in DOMAIN regions : kept[c] # <<>>} |-> kept[chrom]]

\* The regions retain_only_variants_in_normal_cn_regions keeps.
NormalClonalRegions(regions, cell) ==
  LET kept == [chrom \in DOMAIN regions |->
                 SelectSeq(regions[chrom], LAMBDA region :
                   _is_region_normal_cn(region) /\ region.cellular_prevalence = cell)]
  IN [chrom \in {c \in DOMAIN regions : kept[c] # <<>>} |-> kept[chrom]]

\* CnvParser.parse, main line 922.
CnvParse ==
  /\ pc = "cnv_parse"
  /\ cn_regions' = Some(CnvParser_parse(ValueOf(cnv_file)))
  /\ pc' = "add_cnvs"
  /\ UNCHANGED <<parseVars, matrixVars, groupVars, formatVars, cnvArgs,
                 estimated_read_depth, cellularity, good_regions, merged, cnv_written>>

\* VariantAndCnvGroup.add_cnvs: cn_regions is the parsed map already.
add_cnvs ==
  /\ pc = "add_cnvs"
  /\ cellularity' = Some(find_cellularity(ValueOf(cn_regions)))
  /\ pc' = "reconcile"
  /\ UNCHANGED <<parseVars, matrixVars, groupVars, formatVars, cnvArgs,
                 estimated_read_depth, cn_regions, good_regions, merged, cnv_written>>

retain_only_variants_in_normal_cn_regions ==
  /\ pc = "reconcile"
  /\ only_normal_cn
  /\ IF ~has_cnvs
     THEN /\ pc' = "Exception"
          /\ UNCHANGED <<variant_idxs, cn_regions>>
     ELSE LET normal_cn == NormalClonalRegions(ValueOf(cn_regions), ValueOf(cellularity))
              filtered == VariantsInsideRegions(variant_idxs, variants, normal_cn)
          IN /\ variant_idxs' = filtered
             /\ cn_regions' = Some(TouchRemoved(ValueOf(cn_regions), variant_idxs,
                                                filtered, variants))
             /\ pc' = "format_variants"
  /\ UNCHANGED <<parseVars, matrixVars, variants, formatVars, cnvArgs,
                 estimated_read_depth, cellularity, good_regions, merged, cnv_written>>

exclude_variants_in_subclonal_cnvs ==
  /\ pc = "reconcile"
  /\ ~only_normal_cn
  /\ has_cnvs
  /\ LET result == _filter_multiple_abnormal_cn_regions(ValueOf(cn_regions),
                                                        ValueOf(cellularity))
         filtered == VariantsInsideRegions(variant_idxs, variants, result.good)
     IN IF ~result.ok
        THEN /\ pc' = "AssertionError"
             /\ UNCHANGED <<variant_idxs, cn_regions, good_regions>>
        ELSE /\ good_regions' = Some(result)
             /\ variant_idxs' = filtered
             /\ cn_regions' = Some(TouchRemoved(ValueOf(cn_regions), variant_idxs,
                                                filtered, variants))
             /\ pc' = "format_variants"
  /\ UNCHANGED <<parseVars, matrixVars, variants, formatVars, cnvArgs,
                 estimated_read_depth, cellularity, merged, cnv_written>>

\* The abnormal regions write_cnvs hands to the formatter.
AbnormalRegions(filtered_regions) ==
  [chrom \in DOMAIN filtered_regions |->
     SelectSeq(filtered_regions[chrom], LAMBDA r : ~_is_region_normal_cn(r))]

\* The orders in which a dict with these keys may be iterated.
KeyOrders(keys) ==
  {order \in [1..Cardinality(keys) -> keys] : Range(order) = keys}

\* Mutant: the cellularity the formatter recomputes from the regions it was
\* handed is stored in the group.
WriteCnvs_StoresCellularity(vs, next_pc) ==
  LET result == _filter_multiple_abnormal_cn_regions(ValueOf(cn_regions),
                                                     ValueOf(cellularity))
      abnormal_regions == AbnormalRegions(result.good)
  IN /\ IF ~result.ok
        THEN /\ pc' = "AssertionError"
             /\ UNCHANGED <<good_regions, merged, cnv_written, cellularity>>
        ELSE \E chrom_order \in KeyOrders(DOMAIN abnormal_regions) :
               /\ good_regions' = Some(result)
               /\ merged' = MergeFormatted(abnormal_regions, chrom_order, vs,
                                           estimated_read_depth, read_length)
               /\ cnv_written' = Append(cnv_written, ScaleByConfidence(merged', cnv_confidence))
               /\ cellularity' = Some(find_cellularity(abnormal_regions))
               /\ pc' = next_pc
     /\ UNCHANGED <<parseVars, matrixVars, groupVars, formatVars, cnvArgs,
                    estimated_read_depth, cn_regions>>

\* VariantAndCnvGroup.write_cnvs for the formatted variants vs.
WriteCnvs(vs, next_pc) ==
  LET result == _filter_multiple_abnormal_cn_regions(ValueOf(cn_regions),
                                                     ValueOf(cellularity))
      abnormal_regions == AbnormalRegions(result.good)
  IN /\ IF ~result.ok
        THEN /\ pc' = "AssertionError"
             /\ UNCHANGED <<good_regions, merged, cnv_written>>
        ELSE \E chrom_order \in KeyOrders(DOMAIN abnormal_regions) :
               /\ good_regions' = Some(result)
               /\ merged' = MergeFormatted(abnormal_regions, chrom_order, vs,
                                           estimated_read_depth, read_length)
               /\ cnv_written' = Append(cnv_written, ScaleByConfidence(merged', cnv_confidence))
               /\ pc' = next_pc
     /\ UNCHANGED <<parseVars, matrixVars, groupVars, formatVars, cnvArgs,
                    estimated_read_depth, cn_regions, cellularity>>

\* main line 937: the CNVs of the subsampled variants.
write_cnvs ==
  /\ pc = "write_variants"
  /\ ~only_normal_cn
  /\ has_cnvs
  /\ WriteCnvs(subsampled_vars, "write_cnvs_nonsubsampled")

\* main line 939: the CNVs of the nonsubsampled variants.
write_cnvs_nonsubsampled ==
  /\ pc = "write_cnvs_nonsubsampled"
  /\ WriteCnvs(nonsubsampled_vars, "done")

\* main lines 940-943: an empty CNV file.
write_empty_cnvs ==
  /\ pc = "write_variants"
  /\ only_normal_cn \/ ~has_cnvs
  /\ cnv_written' = Append(cnv_written, <<>>)
  /\ pc' = "done"
  /\ UNCHANGED <<parseVars, matrixVars, groupVars, formatVars, cnvArgs,
                 estimated_read_depth, cn_regions, cellularity, good_regions, merged>>

(***************************************************************************)
(* SpecFormat: format_variants applied to every retained variant set, every *)
(* sample size, every priority set and every shuffle.                      *)
(***************************************************************************)
FormatChroms == {"2", "10"}
FormatPositions == {1, 2}
FormatIds == {VariantId(c, p) : c \in FormatChroms, p \in FormatPositions}

\* all_variant_ids.sort(key = variant_key) of a set of identities.
SortedIds(ids) ==
  LET listed == CHOOSE s \in [1..Cardinality(ids) -> ids] : Range(s) = ids
  IN Elements(SortKeyed([i \in DOMAIN listed |-> <<variant_key(listed[i]), listed[i]>>]))

\* The integers of S in ascending order.
RECURSIVE AscendingSeq(_)
AscendingSeq(S) ==
  IF S = {} THEN <<>>
  ELSE LET m == CHOOSE x \in S : \A y \in S : y <= x
       IN Append(AscendingSeq(S \ {m}), m)

SampleSizes == {None} \cup {Some(k) : k \in -1..MaxSampleSize}

\* The defaults of --cnv-confidence and --read-length.
DefaultCnvConfidence == Rat(1, 2)
DefaultReadLength == 100

\* No CNV file is given: the group holds no regions.
NoCnvs ==
  /\ cnv_file = None
  /\ only_normal_cn = FALSE
  /\ cnv_confidence = DefaultCnvConfidence
  /\ read_length = DefaultReadLength
  /\ cn_regions = None
  /\ cellularity = None
  /\ good_regions = None
  /\ merged = <<>>
  /\ cnv_written = <<>>

InitFormat ==
  /\ pc = "format_variants"
  /\ NoCnvs
  /\ vcf_files = <<>>
  /\ missing_variant_confidence = RatOfInt(1)
  /\ parsed_variants = <<>>
  /\ \E ids \in SUBSET FormatIds :
       /\ Cardinality(ids) <= MaxVariants
       /\ all_variant_ids = SortedIds(ids)
       /\ variants = SortedIds(ids)
  /\ ref_read_counts = [i \in DOMAIN variants |-> <<variants[i].POS>>]
  /\ total_read_counts = [i \in DOMAIN variants |-> <<variants[i].POS + ChromInt(variants[i].CHROM)>>]
  \* list(range(len(variants))) after an order-preserving CNV filter.
  /\ variant_idxs \in {AscendingSeq(keep) : keep \in SUBSET (DOMAIN variants)}
  /\ estimated_read_depth = _estimate_read_depth(variants, total_read_counts)
  /\ sample_size \in SampleSizes
  /\ random_state \in {None, Some(0)}
  /\ priority_ssms \in SUBSET {<<v.CHROM, v.POS>> : v \in FormatIds}
  /\ subsampled_vars = <<>>
  /\ nonsubsampled_vars = <<>>

NextFormat == format_variants \/ write_empty_cnvs

SpecFormat == InitFormat /\ [][NextFormat]_vars

(***************************************************************************)
(* SpecCnv: main from the CNV file on, for every CNV file of up to         *)
(* MaxRegions lines over a small set of regions.                           *)
(***************************************************************************)
MaxRegions == 3

\* The lines a CNV file of the model may hold: two blocks and an
\* overlapping region on chromosome 1, one block on chromosome 2; normal and
\* gained copy number; prevalence 1/2 and 1.
CnvLines ==
  [chromosome : {"1"}, start : {1}, end : {10},
   major_cn : {1, 2}, minor_cn : {1}, cellular_prevalence : {Rat(1, 2), RatOfInt(1)}]
  \cup
  [chromosome : {"1"}, start : {11}, end : {20},
   major_cn : {1, 2}, minor_cn : {1}, cellular_prevalence : {Rat(1, 2), RatOfInt(1)}]
  \cup
  [chromosome : {"1"}, start : {1}, end : {20},
   major_cn : {2}, minor_cn : {1}, cellular_prevalence : {Rat(1, 2)}]
  \cup
  [chromosome : {"2"}, start : {1}, end : {10},
   major_cn : {2}, minor_cn : {1}, cellular_prevalence : {Rat(1, 2), RatOfInt(1)}]

\* A CNV file: lines f, numbered in file order.
NumberLines(f) ==
  [i \in DOMAIN f |->
     [chromosome |-> f[i].chromosome, start |-> f[i].start, end |-> f[i].end,
      major_cn |-> f[i].major_cn, minor_cn |-> f[i].minor_cn,
      cellular_prevalence |-> f[i].cellular_prevalence, line |-> i]]

\* The variants of the run: one on chromosome 1, one on chromosome 2.
CnvRunVariants ==
  SortedIds({VariantId("1", 5), VariantId("2", 5)})

InitCnv ==
  /\ pc = "cnv_parse"
  /\ vcf_files = <<>>
  /\ missing_variant_confidence = RatOfInt(1)
  /\ parsed_variants = <<>>
  /\ all_variant_ids = CnvRunVariants
  /\ variants = CnvRunVariants
  /\ ref_read_counts = [i \in DOMAIN variants |-> <<300>>]
  /\ total_read_counts = [i \in DOMAIN variants |-> <<400>>]
  /\ variant_idxs = [i \in DOMAIN variants |-> i]
  /\ estimated_read_depth = _estimate_read_depth(variants, total_read_counts)
  /\ sample_size = Some(1)
  /\ priority_ssms = {}
  /\ random_state = Some(0)
  /\ subsampled_vars = <<>>
  /\ nonsubsampled_vars = <<>>
  /\ \E n \in 0..MaxRegions : \E f \in [1..n -> CnvLines] :
       cnv_file = Some(NumberLines(f))
  /\ only_normal_cn = FALSE
  /\ cnv_confidence = DefaultCnvConfidence
  /\ read_length = DefaultReadLength
  /\ cn_regions = None
  /\ cellularity = None
  /\ good_regions = None
  /\ merged = <<>>
  /\ cnv_written = <<>>

NextCnv ==
  \/ CnvParse
  \/ add_cnvs
  \/ exclude_variants_in_subclonal_cnvs
  \/ format_variants
  \/ write_cnvs
  \/ write_cnvs_nonsubsampled

SpecCnv == InitCnv /\ [][NextCnv]_vars

(***************************************************************************)
(* SpecNormalCn: main from the CNV file on with --only-normal-cn, for the   *)
(* CNV files of SpecCnv.                                                    *)
(***************************************************************************)
InitNormalCn ==
  /\ pc = "cnv_parse"
  /\ vcf_files = <<>>
  /\ missing_variant_confidence = RatOfInt(1)
  /\ parsed_variants = <<>>
  /\ all_variant_ids = CnvRunVariants
  /\ variants = CnvRunVariants
  /\ ref_read_counts = [i \in DOMAIN variants |-> <<300>>]
  /\ total_read_counts = [i \in DOMAIN variants |-> <<400>>]
  /\ variant_idxs = [i \in DOMAIN variants |-> i]
  /\ estimated_read_depth = _estimate_read_depth(variants, total_read_counts)
  /\ sample_size = Some(1)
  /\ priority_ssms = {}
  /\ random_state = Some(0)
  /\ subsampled_vars = <<>>
  /\ nonsubsampled_vars = <<>>
  /\ \E n \in 0..MaxRegions : \E f \in [1..n -> CnvLines] :
       cnv_file = Some(NumberLines(f))
  /\ only_normal_cn = TRUE
  /\ cnv_confidence = DefaultCnvConfidence
  /\ read_length = DefaultReadLength
  /\ cn_regions = None
  /\ cellularity = None
  /\ good_regions = None
  /\ merged = <<>>
  /\ cnv_written = <<>>

NextNormalCn ==
  \/ CnvParse
  \/ add_cnvs
  \/ retain_only_variants_in_normal_cn_regions
  \/ format_variants
  \/ write_empty_cnvs

SpecNormalCn == InitNormalCn /\ [][NextNormalCn]_vars

(***************************************************************************)
(* Variant callers' output: VariantParser and two of its adapters.         *)
(***************************************************************************)
\* A record as vcf.Reader yields it.  FILTER is None or the list of failed
\* filters; t_alt_count and t_ref_count are the INFO entries, None when INFO
\* lacks the key; ALT is ALT[0]; DP and altU are the tumor sample's DP and
\* <ALT>U[0] fields.
VcfRecord(chrom, pos, filter, is_snp, t_alt_count, t_ref_count, alt, dp, altU) ==
  [CHROM |-> chrom, POS |-> pos, FILTER |-> filter, is_snp |-> is_snp,
   t_alt_count |-> t_alt_count, t_ref_count |-> t_ref_count,
   ALT |-> alt, DP |-> dp, altU |-> altU]

\* CHROM[3:] when CHROM.startswith('chr'), on the chromosome names of the model.
StripChr(str) ==
  CASE str = "chr1" -> "1"
    [] str = "chr2" -> "2"
    [] str = "chr10" -> "10"
    [] str = "chrx" -> "x"
    [] OTHER -> str

\* _parse_vcf: lower-case the chromosome and drop a leading "chr".
_parse_vcf(records) ==
  [i \in DOMAIN records |-> [records[i] EXCEPT !.CHROM = StripChr(Lower(@))]]

_is_good_chrom(chrom) == chrom \in Range(ChromNames)

\* VariantParser._does_variant_pass_filters.
_does_variant_pass_filters(variant) ==
  IF variant.FILTER = None THEN TRUE
  ELSE IF Len(ValueOf(variant.FILTER)) > 0 THEN FALSE
  ELSE TRUE

\* StrelkaParser._does_variant_pass_filters.
Strelka_does_variant_pass_filters(variant) ==
  IF variant.is_snp
  THEN variant.FILTER = None \/ Len(ValueOf(variant.FILTER)) = 0
  ELSE FALSE

\* VariantParser._filter, with the adapter's filter test.
_filter(vcf_type, records) ==
  SelectSeq(_parse_vcf(records),
            LAMBDA variant :
              /\ _is_good_chrom(variant.CHROM)
              /\ IF vcf_type = "strelka"
                 THEN Strelka_does_variant_pass_filters(variant)
                 ELSE _does_variant_pass_filters(variant))

\* PcawgConsensusParser._calc_read_counts: None stands for
\* ReadCountsUnavailableError, else <<(ref_reads, total_reads)>>.
Pcawg_calc_read_counts(variant) ==
  IF ~(variant.t_alt_count # None /\ variant.t_ref_count # None)
  THEN None
  ELSE LET alt_reads == ValueOf(variant.t_alt_count)
           ref_reads == ValueOf(variant.t_ref_count)
           total_reads == alt_reads + ref_reads
       IN IF total_reads = 0 THEN None ELSE Some(<<ref_reads, total_reads>>)

\* StrelkaParser._calc_read_counts: never unavailable.
Strelka_calc_read_counts(variant) ==
  LET total_reads == IF variant.ALT = None THEN 0 ELSE variant.DP
      variant_reads == IF variant.ALT = None THEN 0 ELSE variant.altU
  IN Some(<<total_reads - variant_reads, total_reads>>)

_calc_read_counts(vcf_type, variant) ==
  IF vcf_type = "strelka" THEN Strelka_calc_read_counts(variant)
  ELSE Pcawg_calc_read_counts(variant)

\* Mutant: a record without read counts is listed with zero counts.
ListFiltered_NoSkip(vcf_type, filtered) ==
  [i \in DOMAIN filtered |->
     LET counts == _calc_read_counts(vcf_type, filtered[i])
     IN IF counts = None THEN <<filtered[i], 0, 0>>
        ELSE <<filtered[i], ValueOf(counts)[1], ValueOf(counts)[2]>>]

\* The loop of list_variants: the (variant, ref_reads, total_reads) triples
\* of the records whose read counts are available.
RECURSIVE ListFiltered(_, _)
ListFiltered(vcf_type, filtered) ==
  IF filtered = <<>> THEN <<>>
  ELSE LET counts == _calc_read_counts(vcf_type, Head(filtered))
           rest == ListFiltered(vcf_type, Tail(filtered))
       IN IF counts = None THEN rest
          ELSE <<<<Head(filtered), ValueOf(counts)[1], ValueOf(counts)[2]>>>> \o rest

\* VariantParser.list_variants.
list_variants(vcf_type, records) == ListFiltered(vcf_type, _filter(vcf_type, records))

\* The caller types of the model that parse_variants knows.
KnownVcfTypes == {"pcawg_consensus", "strelka"}

\* One round of the loop of parse_variants over args.vcf_files: the adapter
\* is chosen, the file parsed and its identities collected.
parse_vcf_file ==
  /\ pc = "parse_variants"
  /\ Len(parsed_variants) < Len(vcf_files)
  /\ LET vcf_file == vcf_files[Len(parsed_variants) + 1]
     IN IF vcf_file.vcf_type \notin KnownVcfTypes
        THEN /\ pc' = "Exception"
             /\ UNCHANGED <<parsed_variants, all_variant_ids>>
        ELSE LET parsed == list_variants(vcf_file.vcf_type, vcf_file.records)
                 variant_ids == [i \in DOMAIN parsed |->
                                   VariantId(parsed[i][1].CHROM, parsed[i][1].POS)]
             IN /\ parsed_variants' = Append(parsed_variants, parsed)
                /\ all_variant_ids' = all_variant_ids \o variant_ids
                /\ pc' = pc
  /\ UNCHANGED <<vcf_files, missing_variant_confidence, matrixVars, groupVars,
                 formatVars, cnvArgs, cnvVars>>

\* list(set(all_variant_ids)) sorted by variant_key.
DedupAndSort(ids) == SortedIds(Range(ids))

\* The cell of one sample for one identity after the loop of lines 859-864:
\* the counts of the last triple of the sample with that identity, else NaN.
RECURSIVE CellOf(_, _, _)
CellOf(parsed, variant_id, field) ==
  IF parsed = <<>> THEN NaN
  ELSE LET last == parsed[Len(parsed)]
       IN IF VariantId(last[1].CHROM, last[1].POS) = variant_id
          THEN Some(last[field])
          ELSE CellOf(SubSeq(parsed, 1, Len(parsed) - 1), variant_id, field)

\* parse_variants, lines 850-864: the identity list and the two matrices,
\* a NaN in every cell no file supplied.
build_matrices ==
  /\ pc = "parse_variants"
  /\ Len(parsed_variants) = Len(vcf_files)
  /\ LET ids == DedupAndSort(all_variant_ids)
     IN /\ all_variant_ids' = ids
        /\ ref_read_counts' =
             [v \in DOMAIN ids |->
                [s \in DOMAIN parsed_variants |-> CellOf(parsed_variants[s], ids[v], 2)]]
        /\ total_read_counts' =
             [v \in DOMAIN ids |->
                [s \in DOMAIN parsed_variants |-> CellOf(parsed_variants[s], ids[v], 3)]]
  /\ pc' = "impute_missing_total_reads"
  /\ UNCHANGED <<vcf_files, missing_variant_confidence, parsed_variants, groupVars,
                 formatVars, cnvArgs, cnvVars>>

(***************************************************************************)
(* Imputation.  The geometric means are real numbers; the model decides    *)
(* the floor of an imputed count exactly, by comparing integer powers.  A   *)
(* natural number too large for a machine integer is the list of its       *)
(* digits in base 10000, least significant first.                          *)
(***************************************************************************)
RECURSIVE MulSmall(_, _, _)
MulSmall(big, m, carry) ==
  IF big = <<>> THEN (IF carry = 0 THEN <<>> ELSE <<carry>>)
  ELSE LET x == Head(big) * m + carry
       IN <<x % 10000>> \o MulSmall(Tail(big), m, x \div 10000)

\* big * m^e for 0 <= m < 10000.
RECURSIVE TimesPow(_, _, _)
TimesPow(big, m, e) ==
  IF e = 0 THEN big
  ELSE IF m = 0 THEN <<>>
  ELSE TimesPow(MulSmall(big, m, 0), m, e - 1)

\* The product of m^e over the pairs <<m, e>> of factors.
RECURSIVE BigProduct(_)
BigProduct(factors) ==
  IF factors = <<>> THEN <<1>>
  ELSE TimesPow(BigProduct(Tail(factors)), Head(factors)[1], Head(factors)[2])

RECURSIVE BigLeqFrom(_, _, _)
BigLeqFrom(a, b, i) ==
  IF i = 0 THEN TRUE
  ELSE IF a[i] # b[i] THEN a[i] < b[i]
  ELSE BigLeqFrom(a, b, i - 1)

BigLeq(a, b) ==
  IF Len(a) # Len(b) THEN Len(a) < Len(b) ELSE BigLeqFrom(a, b, Len(a))

\* The cells of the matrix that ma.log leaves unmasked: supplied and positive.
Unmasked(total_reads, v, s) ==
  total_reads[v][s] # NaN /\ ValueOf(total_reads[v][s]) > 0

UnmaskedOfSample(total_reads, s) ==
  {v \in DOMAIN total_reads : Unmasked(total_reads, v, s)}

UnmaskedOfVariant(total_reads, v) ==
  {s \in DOMAIN total_reads[v] : Unmasked(total_reads, v, s)}

\* A set of numbers as a list, in any order.
RECURSIVE AsList(_)
AsList(S) ==
  IF S = {} THEN <<>>
  ELSE LET x == CHOOSE y \in S : TRUE IN <<x>> \o AsList(S \ {x})

RECURSIVE ProductOf(_)
ProductOf(s) == IF s = <<>> THEN 1 ELSE Head(s) * ProductOf(Tail(s))

\* The factors of prod(total_reads[v', s] for unmasked v') ^ e: the e-th
\* power of the m-th power of the geometric mean of sample s.
SampleFactors(total_reads, s, e) ==
  LET vs == AsList(UnmaskedOfSample(total_reads, s))
  IN [i \in DOMAIN vs |-> <<ValueOf(total_reads[vs[i]][s]), e>>]

RECURSIVE Concat(_)
Concat(lists) == IF lists = <<>> THEN <<>> ELSE Head(lists) \o Concat(Tail(lists))

\* n <= confidence * variant_mean_reads[v] * sample_means[s], decided on the
\* power k * M of both sides, k the unmasked samples of v and M the product
\* of the numbers of unmasked variants of the samples.
ImputedAtLeast(total_reads, confidence, v, s, n, nsamples) ==
  LET counts == [t \in 1..nsamples |-> Cardinality(UnmaskedOfSample(total_reads, t))]
      M == ProductOf(counts)
      obs == AsList(UnmaskedOfVariant(total_reads, v))
      k == Len(obs)
      lhs == BigProduct(<<<<n * confidence.d, k * M>>>>
               \o Concat([i \in DOMAIN obs |->
                            SampleFactors(total_reads, obs[i], M \div counts[obs[i]])]))
      rhs == BigProduct(<<<<confidence.n, k * M>>>>
               \o [i \in DOMAIN obs |-> <<ValueOf(total_reads[v][obs[i]]), M>>]
               \o SampleFactors(total_reads, s, (k * M) \div counts[s]))
  IN BigLeq(lhs, rhs)

\* floor(confidence * imputed_counts[v, s]).
RECURSIVE FloorImputed(_, _, _, _, _, _)
FloorImputed(total_reads, confidence, v, s, n, nsamples) ==
  IF ImputedAtLeast(total_reads, confidence, v, s, n + 1, nsamples)
  THEN FloorImputed(total_reads, confidence, v, s, n + 1, nsamples)
  ELSE n

\* The assertions of lines 788, 795 and 800: every sample and every variant
\* has an unmasked cell, so that each geometric mean is a positive number,
\* and no supplied count is zero or less.  Without a variant, or with a
\* sample none of whose counts is positive, the mean of the sample is not a
\* number.
ImputationAsserts(total_reads, nsamples) ==
  /\ \A s \in 1..nsamples : UnmaskedOfSample(total_reads, s) # {}
  /\ \A v \in DOMAIN total_reads : UnmaskedOfVariant(total_reads, v) # {}
  /\ \A v \in DOMAIN total_reads : \A s \in 1..nsamples :
       total_reads[v][s] # NaN => ValueOf(total_reads[v][s]) > 0

\* Lines 797-803 for one cell: a supplied count as it is, a missing one
\* imputed, scaled by the confidence and floored.
ImputedCell(total_reads, confidence, v, s, nsamples) ==
  IF total_reads[v][s] # NaN
  THEN ValueOf(total_reads[v][s])
  ELSE FloorImputed(total_reads, confidence, v, s, 0, nsamples)

\* impute_missing_total_reads, the matrix it returns.
impute_missing_total_reads(total_reads, confidence, nsamples) ==
  [v \in DOMAIN total_reads |->
     [s \in 1..nsamples |-> ImputedCell(total_reads, confidence, v, s, nsamples)]]

\* Mutant: a missing ref_reads becomes zero.
impute_missing_ref_reads_Zero(ref_reads, total_reads) ==
  [v \in DOMAIN ref_reads |->
     [s \in DOMAIN ref_reads[v] |->
        IF ref_reads[v][s] = NaN THEN 0 ELSE ValueOf(ref_reads[v][s])]]

\* impute_missing_ref_reads: total_reads is the imputed matrix.
impute_missing_ref_reads(ref_reads, total_reads) ==
  [v \in DOMAIN ref_reads |->
     [s \in DOMAIN ref_reads[v] |->
        IF ref_reads[v][s] = NaN THEN total_reads[v][s] ELSE ValueOf(ref_reads[v][s])]]

\* parse_variants line 866.
ImputeTotalReads ==
  /\ pc = "impute_missing_total_reads"
  /\ IF ImputationAsserts(total_read_counts, Len(vcf_files))
     THEN /\ total_read_counts' =
               impute_missing_total_reads(total_read_counts, missing_variant_confidence,
                                          Len(vcf_files))
          /\ pc' = "impute_missing_ref_reads"
     ELSE /\ pc' = "AssertionError"
          /\ UNCHANGED total_read_counts
  /\ UNCHANGED <<parseVars, ref_read_counts, groupVars, formatVars, cnvArgs, cnvVars>>

\* parse_variants line 867.
ImputeRefReads ==
  /\ pc = "impute_missing_ref_reads"
  /\ ref_read_counts' = impute_missing_ref_reads(ref_read_counts, total_read_counts)
  /\ pc' = "random_seed"
  /\ UNCHANGED <<parseVars, total_read_counts, groupVars, formatVars, cnvArgs, cnvVars>>

\* Mutant: the generator is left as the interpreter started it.
random_seed_Omitted ==
  /\ pc = "random_seed"
  /\ pc' = "add_variants"
  /\ UNCHANGED <<parseVars, matrixVars, groupVars, formatVars, cnvArgs, cnvVars>>

\* main line 915: random.seed(1).
random_seed ==
  /\ pc = "random_seed"
  /\ random_state' = Some(0)
  /\ pc' = "add_variants"
  /\ UNCHANGED <<parseVars, matrixVars, groupVars, sample_size, priority_ssms,
                 subsampled_vars, nonsubsampled_vars, cnvArgs, cnvVars>>

\* VariantAndCnvGroup.add_variants, then the branch of main on the CNV
\* arguments (lines 920-928).
add_variants ==
  /\ pc = "add_variants"
  /\ variants' = all_variant_ids
  /\ variant_idxs' = [i \in DOMAIN all_variant_ids |-> i]
  /\ estimated_read_depth' = _estimate_read_depth(all_variant_ids, total_read_counts)
  /\ pc' = IF cnv_file # None THEN "cnv_parse"
           ELSE IF only_normal_cn THEN "reconcile"
           ELSE "format_variants"
  /\ UNCHANGED <<parseVars, matrixVars, formatVars, cnvArgs, cn_regions, cellularity,
                 good_regions, merged, cnv_written>>

(***************************************************************************)
(* SpecParse: main from parse_variants on, without a CNV file, for every   *)
(* list of up to MaxSamples caller files of up to MaxRecords records.      *)
(***************************************************************************)
MaxSamples == 2
MaxRecords == 2

\* The records a VCF file of the model may hold: the same identity written
\* two ways, a sex chromosome, a failed filter, a record without counts and
\* a record without reads.
VcfRecords ==
  {VcfRecord("chr2", 5, Some(<<>>), TRUE, Some(1), Some(3), Some("T"), 4, 1),
   VcfRecord("2", 5, None, TRUE, Some(1), Some(1), Some("T"), 2, 1),
   VcfRecord("10", 3, None, TRUE, Some(2), Some(0), Some("A"), 8, 2),
   VcfRecord("X", 7, None, TRUE, Some(1), Some(1), Some("A"), 2, 1),
   VcfRecord("2", 9, Some(<<"LowQual">>), TRUE, Some(1), Some(1), Some("C"), 2, 1),
   VcfRecord("10", 8, None, TRUE, None, None, None, 4, 0),
   VcfRecord("1", 4, None, FALSE, Some(0), Some(0), Some("G"), 1, 0)}

\* The <vcf_type> keywords of the model: two known and one unknown.
VcfTypes == KnownVcfTypes \cup {"varscan"}

\* The values of --missing-variant-confidence of the model.
Confidences == {RatOfInt(0), Rat(1, 2), RatOfInt(1)}

\* Every list of up to MaxRecords records.
VcfFileContents == UNION {[1..len -> VcfRecords] : len \in 0..MaxRecords}

InitParse ==
  /\ pc = "parse_variants"
  /\ \E n \in 1..MaxSamples :
       \E types \in [1..n -> VcfTypes] :
         \E files \in [1..n -> VcfFileContents] :
           vcf_files = [s \in 1..n |-> [vcf_type |-> types[s], records |-> files[s]]]
  /\ missing_variant_confidence \in Confidences
  /\ parsed_variants = <<>>
  /\ all_variant_ids = <<>>
  /\ ref_read_counts = <<>>
  /\ total_read_counts = <<>>
  /\ variants = <<>>
  /\ variant_idxs = <<>>
  /\ estimated_read_depth = _estimate_read_depth(<<>>, <<>>)
  /\ sample_size = None
  /\ priority_ssms = {}
  /\ random_state = None
  /\ subsampled_vars = <<>>
  /\ nonsubsampled_vars = <<>>
  /\ NoCnvs

NextParse ==
  \/ parse_vcf_file
  \/ build_matrices
  \/ ImputeTotalReads
  \/ ImputeRefReads
  \/ random_seed
  \/ add_variants
  \/ format_variants
  \/ write_empty_cnvs

SpecParse == InitParse /\ [][NextParse]_vars

(***************************************************************************)
(* SpecSeeded: main from random.seed on, without a CNV file, for every      *)
(* identity list, sample size and priority set of SpecFormat; the generator *)
(* starts unseeded.                                                         *)
(***************************************************************************)
InitSeeded ==
  /\ pc = "random_seed"
  /\ NoCnvs
  /\ vcf_files = <<>>
  /\ missing_variant_confidence = RatOfInt(1)
  /\ parsed_variants = <<>>
  /\ \E ids \in SUBSET FormatIds :
       /\ Cardinality(ids) <= MaxVariants
       /\ all_variant_ids = SortedIds(ids)
  /\ ref_read_counts = [i \in DOMAIN all_variant_ids |-> <<all_variant_ids[i].POS>>]
  /\ total_read_counts =
       [i \in DOMAIN all_variant_ids |->
          <<all_variant_ids[i].POS + ChromInt(all_variant_ids[i].CHROM)>>]
  /\ variants = <<>>
  /\ variant_idxs = <<>>
  /\ estimated_read_depth = _estimate_read_depth(<<>>, <<>>)
  /\ sample_size \in SampleSizes
  /\ random_state = None
  /\ priority_ssms \in SUBSET {<<v.CHROM, v.POS>> : v \in FormatIds}
  /\ subsampled_vars = <<>>
  /\ nonsubsampled_vars = <<>>

NextSeeded ==
  \/ random_seed
  \/ add_variants
  \/ format_variants
  \/ write_empty_cnvs

SpecSeeded == InitSeeded /\ [][NextSeeded]_vars

(***************************************************************************)
(* SpecCounts: main from the CNV file on, for CNV files of up to MaxRegions *)
(* regions side by side on chromosome 1 with every copy number from 0:0 to  *)
(* 2:1 and the prevalences 0, 1/2 and 1, every CNV confidence of            *)
(* Confidences, with and without variants.                                  *)
(***************************************************************************)
\* Line i of such a file: the region [10 i - 9, 10 i].
SideBySide(attrs) ==
  [i \in DOMAIN attrs |->
     [chromosome |-> "1", start |-> 10 * i - 9, end |-> 10 * i,
      major_cn |-> attrs[i].major_cn, minor_cn |-> attrs[i].minor_cn,
      cellular_prevalence |-> attrs[i].cellular_prevalence, line |-> i]]

CopyNumbersAndPrevalences ==
  [major_cn : 0..2, minor_cn : 0..1,
   cellular_prevalence : {RatOfInt(0), Rat(1, 2), RatOfInt(1)}]

InitCounts ==
  /\ pc = "cnv_parse"
  /\ vcf_files = <<>>
  /\ missing_variant_confidence = RatOfInt(1)
  /\ parsed_variants = <<>>
  /\ all_variant_ids \in {<<>>, CnvRunVariants}
  /\ variants = all_variant_ids
  /\ ref_read_counts = [i \in DOMAIN variants |-> <<300>>]
  /\ total_read_counts = [i \in DOMAIN variants |-> <<400>>]
  /\ variant_idxs = [i \in DOMAIN variants |-> i]
  /\ estimated_read_depth = _estimate_read_depth(variants, total_read_counts)
  /\ sample_size = None
  /\ priority_ssms = {}
  /\ random_state = Some(0)
  /\ subsampled_vars = <<>>
  /\ nonsubsampled_vars = <<>>
  /\ \E n \in 0..MaxRegions : \E attrs \in [1..n -> CopyNumbersAndPrevalences] :
       cnv_file = Some(SideBySide(attrs))
  /\ only_normal_cn = FALSE
  /\ cnv_confidence \in Confidences
  /\ read_length = DefaultReadLength
  /\ cn_regions = None
  /\ cellularity = None
  /\ good_regions = None
  /\ merged = <<>>
  /\ cnv_written = <<>>

SpecCounts == InitCounts /\ [][NextCnv]_vars

(***************************************************************************)
(* Claims about format_variants (SpecFormat).                              *)
(***************************************************************************)
Min(a, b) == IF a < b THEN a ELSE b

\* The (chromosome, position) identities of a list of formatted rows.
RowIds(rows) == {<<rows[i].chrom, rows[i].pos>> : i \in DOMAIN rows}
RowIdsDistinct(rows) ==
  \A i, j \in DOMAIN rows :
    <<rows[i].chrom, rows[i].pos>> = <<rows[j].chrom, rows[j].pos>> => i = j
\* The identities of the retained variants, those self._variant_idxs names.
RetainedIds == {<<variants[i].CHROM, variants[i].POS>> : i \in Range(variant_idxs)}
RequestedSize == IF sample_size = None THEN Len(variant_idxs) ELSE ValueOf(sample_size)
FormatDone == pc \in {"write_variants", "done"}

\* C1: for a retained set of n variants and a sample size k >= 0 the
\* subsampled group has exactly min(k, n) rows (n rows when no size is given),
\* the two groups are disjoint, together they hold every retained variant
\* exactly once, and no identity appears twice in either group.
C1_RowCountAndPartition ==
  FormatDone =>
    /\ Len(subsampled_vars) = Min(RequestedSize, Len(variant_idxs))
    /\ sample_size = None => Len(subsampled_vars) = Len(variant_idxs)
    /\ RowIds(subsampled_vars) \cap RowIds(nonsubsampled_vars) = {}
    /\ RowIds(subsampled_vars) \cup RowIds(nonsubsampled_vars) = RetainedIds
    /\ Len(subsampled_vars) + Len(nonsubsampled_vars) = Len(variant_idxs)
    /\ RowIdsDistinct(subsampled_vars)
    /\ RowIdsDistinct(nonsubsampled_vars)

\* C1 witness: three retained variants, two requested, one left over.
C1_Witness ==
  /\ FormatDone
  /\ sample_size = Some(2)
  /\ Len(variant_idxs) = 3
  /\ Len(subsampled_vars) = 2
  /\ Len(nonsubsampled_vars) = 1

\* C2: with p retained priority variants and sample size k the subsampled
\* group holds exactly min(p, k) priority variants and k - min(p, k)
\* non-priority ones (fewer only when fewer than k variants are retained);
\* every variant not selected is in the nonsubsampled group.
C2_PriorityFill ==
  FormatDone =>
    LET n == Len(variant_idxs)
        k == RequestedSize
        p == Cardinality(RetainedIds \cap priority_ssms)
        chosen == RowIds(subsampled_vars)
    IN /\ Cardinality(chosen \cap priority_ssms) = Min(p, k)
       /\ Cardinality(chosen \ priority_ssms) = Min(k - Min(p, k), n - p)
       /\ n >= k => Cardinality(chosen \ priority_ssms) = k - Min(p, k)
       /\ RetainedIds \ chosen = RowIds(nonsubsampled_vars)

\* C2 witness: one priority variant among three, two requested: the priority
\* variant and one other are chosen, the third is left over.
C2_Witness ==
  /\ FormatDone
  /\ sample_size = Some(2)
  /\ Len(variant_idxs) = 3
  /\ Cardinality(RetainedIds \cap priority_ssms) = 1
  /\ Cardinality(RowIds(subsampled_vars) \cap priority_ssms) = 1
  /\ Cardinality(RowIds(subsampled_vars) \ priority_ssms) = 1
  /\ Cardinality(RowIds(nonsubsampled_vars)) = 1

\* Rows in strictly ascending order of (chromosome as integer, position).
RowsAscending(rows) ==
  \A i, j \in DOMAIN rows :
    i < j => \/ ChromInt(rows[i].chrom) < ChromInt(rows[j].chrom)
             \/ /\ ChromInt(rows[i].chrom) = ChromInt(rows[j].chrom)
                /\ rows[i].pos < rows[j].pos

\* C3: whatever the shuffle, both groups are listed in ascending order of
\* (chromosome as integer, position).
C3_GroupsSorted ==
  FormatDone => RowsAscending(subsampled_vars) /\ RowsAscending(nonsubsampled_vars)

\* C3 witness: the shuffle left the indices out of order, and the subsampled
\* group holds a chromosome-2 and a chromosome-10 variant.
C3_Witness ==
  /\ FormatDone
  /\ \E i, j \in DOMAIN variant_idxs : i < j /\ variant_idxs[i] > variant_idxs[j]
  /\ \E i, j \in DOMAIN subsampled_vars :
       subsampled_vars[i].chrom = "2" /\ subsampled_vars[j].chrom = "10"
  /\ Len(nonsubsampled_vars) >= 1

(***************************************************************************)
(* Claims about the CNV reconciliation and the CNV merge (SpecCnv).        *)
(***************************************************************************)
\* A write_cnvs call has returned: merged holds its rows before scaling.
CnvsWritten == pc \in {"write_cnvs_nonsubsampled", "done"} /\ cnv_written # <<>>
\* The block filter has returned.
FilterDone == good_regions # None
\* The regions the last write_cnvs call formatted: the abnormal regions the
\* block filter kept.
FormattedRegions == AllRegions(AbnormalRegions(ValueOf(good_regions).good))
\* The parsed region read from a line of the CNV file.
RegionOfLine(line) == CHOOSE r \in AllRegions(ValueOf(cn_regions)) : r.line = line
\* No formatted region has a larger prevalence.
HasMaximalPrevalence(prev) ==
  \A r \in FormattedRegions : ~RatLess(prev, r.cellular_prevalence)
\* The total_reads _format_cnvs computes for the region of a line.
FormattedTotal(line) ==
  LET r == RegionOfLine(line)
  IN _calc_total_reads(r.cellular_prevalence, r.start, r.end,
                       r.major_cn + r.minor_cn, estimated_read_depth, read_length)

\* C7: all formatted regions whose prevalence is the maximal observed one end
\* up in a single output row, whatever their chromosomes, coordinates or
\* order; that row's total_reads before the confidence scaling is the sum of
\* the total_reads of the regions merged into it; at most one row carries the
\* maximal prevalence.
C7_MaximalPrevalenceMerged ==
  CnvsWritten =>
    /\ \A i, j \in DOMAIN merged :
         /\ HasMaximalPrevalence(merged[i].cellular_prevalence)
         /\ HasMaximalPrevalence(merged[j].cellular_prevalence)
         => i = j
    /\ \A r \in FormattedRegions :
         HasMaximalPrevalence(r.cellular_prevalence) =>
           \E i \in DOMAIN merged :
             /\ r.line \in Range(merged[i].lines)
             /\ \A q \in FormattedRegions :
                  HasMaximalPrevalence(q.cellular_prevalence) =>
                    q.line \in Range(merged[i].lines)
    /\ \A i \in DOMAIN merged :
         merged[i].total_reads =
           SumSeq([k \in DOMAIN merged[i].lines |-> FormattedTotal(merged[i].lines[k])])
    /\ Len(cnv_written[Len(cnv_written)]) = Len(merged)

\* C7 witness: two regions of maximal prevalence on different chromosomes
\* were merged into one row, after a row of lower prevalence.
C7_Witness ==
  /\ CnvsWritten
  /\ Len(merged) = 2
  /\ Len(merged[2].lines) = 2
  /\ HasMaximalPrevalence(merged[2].cellular_prevalence)
  /\ \E r, q \in FormattedRegions :
       /\ {r.line, q.line} = Range(merged[2].lines)
       /\ r.start # q.start
       /\ \E c1, c2 \in DOMAIN ValueOf(good_regions).good :
            /\ c1 # c2
            /\ r \in Range(ValueOf(good_regions).good[c1])
            /\ q \in Range(ValueOf(good_regions).good[c2])

\* C8: a region is merged with another only if both are clonal, that is
\* both have the cellularity, the largest prevalence of all parsed regions,
\* normal and abnormal; regions of different prevalence, or of equal
\* prevalence below the cellularity, are written as separate rows.
C8_OnlyClonalMerged ==
  CnvsWritten =>
    \A i \in DOMAIN merged :
      Len(merged[i].lines) > 1 =>
        \A k \in DOMAIN merged[i].lines :
          RegionOfLine(merged[i].lines[k]).cellular_prevalence = ValueOf(cellularity)

\* C9: the block filter retains every region whose prevalence is the
\* cellularity, whatever its copy number and whatever regions share its
\* coordinates or precede it in the start-sorted list.
C9_ClonalAlwaysRetained ==
  FilterDone =>
    \A chrom \in DOMAIN ValueOf(cn_regions) :
      \A r \in Range(ValueOf(cn_regions)[chrom]) :
        r.cellular_prevalence = ValueOf(cellularity) =>
          r \in Range(Lookup(ValueOf(good_regions).good, chrom))

\* The regions of a chromosome at the coordinates (start, end).
CoordinateBlock(chrom, start, end) ==
  {r \in Range(ValueOf(cn_regions)[chrom]) : r.start = start /\ r.end = end}
\* A block none of whose regions is clonal.
IsSubclonalBlock(block) ==
  block # {} /\ \A r \in block : r.cellular_prevalence # ValueOf(cellularity)
AbnormalOf(block) == {r \in block : ~(r.major_cn = 1 /\ r.minor_cn = 1)}
RetainedOn(chrom) == Range(Lookup(ValueOf(good_regions).good, chrom))
\* Two regions of one chromosome start together and end apart: the case the
\* assertion of the scan is about.
SameStartOtherEnd ==
  \E chrom \in DOMAIN ValueOf(cn_regions) :
    \E r, q \in Range(ValueOf(cn_regions)[chrom]) : r.start = q.start /\ r.end # q.end

\* C10: of a block of sub-clonal regions at the same (start, end) on one
\* chromosome, exactly the abnormal region is retained when the block has
\* exactly one, and no region is retained when it has two or more; the
\* second case is not a fatal error (the run fails only on the assertion
\* about regions that start together and end apart).
C10_SubclonalBlocks ==
  /\ FilterDone =>
       \A chrom \in DOMAIN ValueOf(cn_regions) :
         \A r \in Range(ValueOf(cn_regions)[chrom]) :
           LET block == CoordinateBlock(chrom, r.start, r.end)
           IN IsSubclonalBlock(block) =>
                /\ Cardinality(AbnormalOf(block)) = 1 =>
                     RetainedOn(chrom) \cap block = AbnormalOf(block)
                /\ Cardinality(AbnormalOf(block)) >= 2 =>
                     RetainedOn(chrom) \cap block = {}
  /\ pc = "AssertionError" => SameStartOtherEnd

\* C10 witness: a sub-clonal block of two abnormal regions was dropped and
\* the run went on to format the variants.
C10_Witness ==
  /\ FilterDone
  /\ pc = "format_variants"
  /\ \E chrom \in DOMAIN ValueOf(cn_regions) :
       \E r \in Range(ValueOf(cn_regions)[chrom]) :
         LET block == CoordinateBlock(chrom, r.start, r.end)
         IN /\ IsSubclonalBlock(block)
            /\ Cardinality(AbnormalOf(block)) = 2
            /\ RetainedOn(chrom) \cap block = {}

(***************************************************************************)
(* Claims about parse_variants and the imputation (SpecParse).             *)
(***************************************************************************)
\* The identity a record of a file stands for.
IdentityOf(record) == VariantId(StripChr(Lower(record.CHROM)), record.POS)

\* The record passes the chromosome test and the filter test of its caller
\* and its read counts are available.
IsListed(vcf_type, record) ==
  LET variant == [record EXCEPT !.CHROM = StripChr(Lower(@))]
  IN /\ variant.CHROM \in Range(ChromNames)
     /\ IF vcf_type = "strelka"
        THEN variant.is_snp /\ (variant.FILTER = None \/ variant.FILTER = Some(<<>>))
        ELSE variant.FILTER = None \/ variant.FILTER = Some(<<>>)
     /\ vcf_type = "pcawg_consensus" =>
          /\ variant.t_alt_count # None
          /\ variant.t_ref_count # None
          /\ ValueOf(variant.t_alt_count) + ValueOf(variant.t_ref_count) # 0

\* The identities listed by file s.
ListedIdsOf(s) ==
  {IdentityOf(vcf_files[s].records[i]) :
     i \in {j \in DOMAIN vcf_files[s].records :
              IsListed(vcf_files[s].vcf_type, vcf_files[s].records[j])}}

ListedIds == UNION {ListedIdsOf(s) : s \in DOMAIN vcf_files}

MatricesBuilt ==
  pc \in {"impute_missing_total_reads", "impute_missing_ref_reads", "add_variants",
          "random_seed", "format_variants", "write_variants", "done", "AssertionError"}

Imputed == pc \in {"random_seed", "add_variants", "format_variants", "write_variants", "done"}

OutputRows == subsampled_vars \o nonsubsampled_vars

\* C4: once parse_variants has built the matrices, the identity list holds
\* exactly the identities that some file lists (good chromosome, filters
\* passed, read counts available), each once and with one row in each matrix,
\* in ascending (chromosome, position) order; an identity no file lists is in
\* no row of the output tables.
C4_IdentityListIsUnionOfListed ==
  MatricesBuilt =>
    /\ Range(all_variant_ids) = ListedIds
    /\ IsInjective(all_variant_ids)
    /\ Len(ref_read_counts) = Len(all_variant_ids)
    /\ Len(total_read_counts) = Len(all_variant_ids)
    /\ \A i, j \in DOMAIN all_variant_ids :
         i < j => KeyLess(variant_key(all_variant_ids[i]), variant_key(all_variant_ids[j]))
    /\ \A i \in DOMAIN OutputRows :
         VariantId(OutputRows[i].chrom, OutputRows[i].pos) \in ListedIds

\* C4 witness: the tables are written for two files that list the same
\* identity, one of which also carries a record that no file lists.
C4_Witness ==
  /\ pc = "done"
  /\ Len(vcf_files) = 2
  /\ ListedIdsOf(1) \cap ListedIdsOf(2) # {}
  /\ Len(all_variant_ids) = 2
  /\ Len(OutputRows) = 2
  /\ \E s \in DOMAIN vcf_files : \E i \in DOMAIN vcf_files[s].records :
       IdentityOf(vcf_files[s].records[i]) \notin Range(all_variant_ids)

\* C5: after both imputations, whatever the confidence in [0, 1], every
\* total_reads cell is greater than zero and every ref_reads cell is zero or
\* more.
C5_CountsPositiveAfterImputation ==
  Imputed =>
    \A v \in DOMAIN total_read_counts : \A s \in DOMAIN total_read_counts[v] :
      /\ total_read_counts[v][s] > 0
      /\ ref_read_counts[v][s] >= 0

\* The (ref_reads, total_reads) pairs file s extracted for an identity.
ExtractedCounts(s, variant_id) ==
  {<<parsed_variants[s][i][2], parsed_variants[s][i][3]>> :
     i \in {j \in DOMAIN parsed_variants[s] :
              VariantId(parsed_variants[s][j][1].CHROM, parsed_variants[s][j][1].POS)
                = variant_id}}

\* C6: after both imputations a cell its sample did not supply has ref_reads
\* equal to total_reads, and a cell its sample supplied holds a pair of counts
\* that the sample's caller extracted for that identity.
C6_ImputedRefEqualsTotal ==
  Imputed =>
    \A v \in DOMAIN all_variant_ids : \A s \in DOMAIN vcf_files :
      IF ExtractedCounts(s, all_variant_ids[v]) = {}
      THEN ref_read_counts[v][s] = total_read_counts[v][s]
      ELSE <<ref_read_counts[v][s], total_read_counts[v][s]>>
             \in ExtractedCounts(s, all_variant_ids[v])

\* C6 witness: an imputed cell with a positive count next to a supplied cell
\* whose ref_reads is below its total_reads.
C6_Witness ==
  /\ Imputed
  /\ \E v \in DOMAIN all_variant_ids : \E s, t \in DOMAIN vcf_files :
       /\ ExtractedCounts(s, all_variant_ids[v]) = {}
       /\ total_read_counts[v][s] > 0
       /\ ExtractedCounts(t, all_variant_ids[v]) # {}
       /\ ref_read_counts[v][t] < total_read_counts[v][t]

(***************************************************************************)
(* Claims about the reconciliation of variants with CNV regions (SpecCnv).  *)
(***************************************************************************)
\* Some region of the map on the variant's chromosome spans its position.
CoveredBy(regions, variant) ==
  \E i \in DOMAIN Lookup(regions, variant.CHROM) :
    /\ Lookup(regions, variant.CHROM)[i].start <= variant.POS
    /\ variant.POS <= Lookup(regions, variant.CHROM)[i].end

\* exclude_variants_in_subclonal_cnvs has returned and the list has not been
\* shuffled yet.
Reconciled == pc = "format_variants" /\ good_regions # None

\* C11: after exclude_variants_in_subclonal_cnvs the retained variants are
\* exactly those that some region retained by the block filter spans; none is
\* added or repeated, and the kept ones stand in the order they had before.
C11_RetainedIffInRetainedRegion ==
  Reconciled =>
    /\ \A v \in DOMAIN variants :
         v \in Range(variant_idxs) <=> CoveredBy(ValueOf(good_regions).good, variants[v])
    /\ \A i, j \in DOMAIN variant_idxs : i < j => variant_idxs[i] < variant_idxs[j]

\* C11 witness: one variant is kept and the other dropped although the CNV
\* file has a region on its chromosome, which the block filter did not retain.
C11_Witness ==
  /\ Reconciled
  /\ Len(variant_idxs) = 1
  /\ \E v \in DOMAIN variants :
       /\ v \notin Range(variant_idxs)
       /\ CoveredBy(ValueOf(cn_regions), variants[v])

\* Some normal-CN region at the cellularity, on the variant's chromosome,
\* spans its position.
InNormalClonalRegion(variant) ==
  \E region \in Range(Lookup(ValueOf(cn_regions), variant.CHROM)) :
    /\ region.major_cn = 1
    /\ region.minor_cn = 1
    /\ region.cellular_prevalence = ValueOf(cellularity)
    /\ region.start <= variant.POS
    /\ variant.POS <= region.end

\* retain_only_variants_in_normal_cn_regions has returned and the list has
\* not been shuffled yet.
NormalCnRetained == pc = "format_variants" /\ only_normal_cn /\ has_cnvs

\* C12: after retain_only_variants_in_normal_cn_regions the retained variants
\* are exactly those that lie in a region of their chromosome with
\* major_cn = minor_cn = 1 and the prevalence of the cellularity.
C12_RetainedIffInNormalClonalRegion ==
  NormalCnRetained =>
    \A v \in DOMAIN variants :
      v \in Range(variant_idxs) <=> InNormalClonalRegion(variants[v])

\* C12 witness: one variant is kept; the other lies in a region of abnormal
\* copy number only and is dropped.
C12_Witness ==
  /\ NormalCnRetained
  /\ Len(variant_idxs) = 1
  /\ \E v \in DOMAIN variants :
       /\ v \notin Range(variant_idxs)
       /\ CoveredBy(ValueOf(cn_regions), variants[v])
       /\ \A region \in Range(Lookup(ValueOf(cn_regions), variants[v].CHROM)) :
            region.major_cn # 1

(***************************************************************************)
(* Claims about the caller adapters and the start of the run (SpecParse).   *)
(***************************************************************************)
\* The read counts of a record are available to its caller's adapter: the
\* count fields are there and the total is not zero.
CountsAvailable(vcf_type, record) ==
  IF vcf_type = "strelka"
  THEN record.ALT # None /\ record.DP # 0
  ELSE /\ record.t_alt_count # None
       /\ record.t_ref_count # None
       /\ ValueOf(record.t_alt_count) + ValueOf(record.t_ref_count) # 0

\* The records of file s that pass the chromosome and filter tests and have
\* their read counts, as parsed, in file order.
AvailableRecords(s) ==
  SelectSeq(_filter(vcf_files[s].vcf_type, vcf_files[s].records),
            LAMBDA variant : CountsAvailable(vcf_files[s].vcf_type, variant))

\* C13: whatever the adapter, the triples listed for a file are those of its
\* filtered records with available read counts, in file order (a record
\* without counts or with a zero total gives no cell, the records after it
\* are still listed), and the run does not stop at an assertion on account of
\* such a record: it stops there only when some file has no record with
\* available counts at all.
C13_UnavailableRecordsSkipped ==
  /\ \A s \in DOMAIN parsed_variants :
       [i \in DOMAIN parsed_variants[s] |-> parsed_variants[s][i][1]] = AvailableRecords(s)
  /\ pc = "AssertionError" => \E s \in DOMAIN vcf_files : AvailableRecords(s) = <<>>

\* C14: when the run fails on an unknown caller-type keyword, no file of the
\* run has been parsed, the files listed before the offending argument
\* included, and no output table has been produced.
C14_UnknownTypeAbortsBeforeParsing ==
  pc = "Exception" =>
    /\ \E s \in DOMAIN vcf_files : vcf_files[s].vcf_type \notin KnownVcfTypes
    /\ parsed_variants = <<>>
    /\ all_variant_ids = <<>>
    /\ OutputRows = <<>>
    /\ cnv_written = <<>>

(***************************************************************************)
(* Claims about the seeded shuffle (SpecSeeded).                            *)
(***************************************************************************)
\* list(range(n)) after random.seed(1) and random.shuffle in Python 2, for
\* n = 0, 1, 2, ..., on the indices of the model.
SeededOrders == <<<<>>, <<1>>, <<2, 1>>, <<3, 2, 1>>, <<4, 2, 3, 1>>>>

\* C15: the outcome of a run is fixed by its inputs: the generator is seeded
\* before the one shuffle, the shuffle is handed the indices in the order of
\* the sorted identity list, so the shuffled list is the one that seed 1
\* gives for that length, whatever state the generator started in, and the
\* subsampled rows are its first min(k, n) indices.
C15_SeededShuffleIsDetermined ==
  FormatDone =>
    /\ variant_idxs = SeededOrders[Len(all_variant_ids) + 1]
    /\ random_state = Some(IF Len(all_variant_ids) < 2 THEN 0 ELSE Len(all_variant_ids) - 1)
    /\ priority_ssms = {} =>
         RowIds(subsampled_vars)
           = {<<variants[variant_idxs[i]].CHROM, variants[variant_idxs[i]].POS>> :
                i \in 1..Min(RequestedSize, Len(variant_idxs))}

\* C15 witness: three variants, one requested without priorities: the
\* subsample is the variant the seeded shuffle puts first, the last of the
\* sorted list.
C15_Witness ==
  /\ FormatDone
  /\ Len(variants) = 3
  /\ sample_size = Some(1)
  /\ priority_ssms = {}
  /\ RowIds(subsampled_vars) = {<<variants[3].CHROM, variants[3].POS>>}

(***************************************************************************)
(* Claims about write_cnvs and format_and_merge_cnvs (SpecCnv).             *)
(***************************************************************************)
\* The lines of the CNV file that name a chromosome.
LinesOfChrom(chrom) ==
  {i \in DOMAIN ValueOf(cnv_file) : ValueOf(cnv_file)[i].chromosome = chrom}

\* The per-chromosome lists of the group hold the regions as the CNV file
\* gave them: each region with the numbers of its line, every line of a
\* chromosome once, in order of start.
RegionsAsParsed ==
  \A chrom \in DOMAIN ValueOf(cn_regions) :
    LET regions == ValueOf(cn_regions)[chrom]
    IN /\ \A i \in DOMAIN regions :
            LET record == ValueOf(cnv_file)[regions[i].line]
            IN /\ record.chromosome = chrom
               /\ regions[i].start = record.start
               /\ regions[i].end = record.end
               /\ regions[i].major_cn = record.major_cn
               /\ regions[i].minor_cn = record.minor_cn
               /\ regions[i].cellular_prevalence = record.cellular_prevalence
       /\ {regions[i].line : i \in DOMAIN regions} = LinesOfChrom(chrom)
       /\ Len(regions) = Cardinality(LinesOfChrom(chrom))
       /\ \A i, j \in DOMAIN regions : i < j => regions[i].start <= regions[j].start

\* The stored cellularity is the largest prevalence of the CNV file.
CellularityAsParsed ==
  LET file == ValueOf(cnv_file)
      cell == ValueOf(cellularity)
  IN /\ \A i \in DOMAIN file : RatLeq(file[i].cellular_prevalence, cell)
     /\ \/ \E i \in DOMAIN file : file[i].cellular_prevalence = cell
        \/ file = <<>> /\ cell = RatOfInt(0)

\* What a written CNV file says of the read counts: for each row the lines it
\* stands for and its ref_reads and total_reads.
WrittenCounts(rows) ==
  {<<Range(rows[i].lines), rows[i].ref_reads, rows[i].total_reads>> : i \in DOMAIN rows}

\* C16: after each write_cnvs call the regions of the group, their
\* per-chromosome lists and the stored cellularity are as they were parsed,
\* and the second call writes the read counts the first one wrote: what a
\* merge accumulated in one call has not reached the next.
C16_WriteCnvsOnlyReads ==
  CnvsWritten =>
    /\ RegionsAsParsed
    /\ CellularityAsParsed
    /\ Len(cnv_written) = 2 => WrittenCounts(cnv_written[1]) = WrittenCounts(cnv_written[2])

\* C16 witness: both CNV files are written and the first call merged two
\* regions into one row.
C16_Witness ==
  /\ pc = "done"
  /\ Len(cnv_written) = 2
  /\ \E i \in DOMAIN cnv_written[1] : Len(cnv_written[1][i].lines) = 2
  /\ \E i \in DOMAIN cnv_written[2] : Len(cnv_written[2][i].lines) = 2

\* The CNV file lines that the rows of a written file stand for, row by row.
RowLines(rows) == Concat([i \in DOMAIN rows |-> rows[i].lines])

\* C17: the rows of every CNV file written carry the ids c0, c1, ... in
\* output order without gap or repeat and stand in non-decreasing order of
\* prevalence; every formatted region is in exactly one row, so a region
\* merged into a row has no row, and no id, of its own.
C17_SequentialIds ==
  CnvsWritten =>
    \A f \in DOMAIN cnv_written :
      LET rows == cnv_written[f]
      IN /\ \A i \in DOMAIN rows : rows[i].cnv_id = Some(i - 1)
         /\ \A i, j \in DOMAIN rows :
              i < j => RatLeq(rows[i].cellular_prevalence, rows[j].cellular_prevalence)
         /\ IsInjective(RowLines(rows))
         /\ Range(RowLines(rows)) = {r.line : r \in FormattedRegions}

\* C17 witness: a file of two rows, c0 for one region and c1 for two merged
\* regions.
C17_Witness ==
  /\ CnvsWritten
  /\ \E f \in DOMAIN cnv_written :
       /\ Len(cnv_written[f]) = 2
       /\ Len(cnv_written[f][1].lines) = 1
       /\ Len(cnv_written[f][2].lines) = 2
       /\ cnv_written[f][2].cnv_id = Some(1)

\* The parsed regions on the variant's chromosome that span its position.
RecordsCovering(variant) ==
  {r \in Range(Lookup(ValueOf(cn_regions), variant.CHROM)) :
     r.start <= variant.POS /\ variant.POS <= r.end}

\* C18: after exclude_variants_in_subclonal_cnvs a variant that exactly one
\* CN record spans is kept, whether the record is of normal or abnormal copy
\* number, and a variant spanned by two records at the same coordinates is
\* dropped only when both are of abnormal copy number.
C18_SingleRecordIncluded ==
  Reconciled =>
    \A v \in DOMAIN variants :
      LET covering == RecordsCovering(variants[v])
      IN /\ Cardinality(covering) = 1 => v \in Range(variant_idxs)
         /\ ( /\ Cardinality(covering) = 2
              /\ \A r, q \in covering : r.start = q.start /\ r.end = q.end
              /\ v \notin Range(variant_idxs) )
            => \A r \in covering : ~_is_region_normal_cn(r)

(***************************************************************************)
(* Claims about the read counts of the CNV rows (SpecCounts).               *)
(***************************************************************************)
\* The denominator 1 + delta_cn * P / 2 of _calc_total_reads for a region,
\* P after the guard.
Denominator(region) ==
  LET new_cn == region.major_cn + region.minor_cn
      delta_cn == IF new_cn = 2 THEN 1 ELSE new_cn - 2
      P == IF region.cellular_prevalence = RatOfInt(1) THEN Rat(999, 1000)
           ELSE region.cellular_prevalence
  IN RatAdd(RatOfInt(1), RatDiv(RatMul(RatOfInt(delta_cn), P), RatOfInt(2)))

\* C19: every row of format_and_merge_cnvs, merged or not, before and after
\* the scaling by the CNV confidence, has 0 <= ref_reads <= total_reads, and
\* the denominator of the read-count model is above zero for every region
\* formatted.
C19_RefWithinTotal ==
  CnvsWritten =>
    /\ \A i \in DOMAIN merged :
         0 <= merged[i].ref_reads /\ merged[i].ref_reads <= merged[i].total_reads
    /\ \A f \in DOMAIN cnv_written : \A i \in DOMAIN cnv_written[f] :
         /\ 0 <= cnv_written[f][i].ref_reads
         /\ cnv_written[f][i].ref_reads <= cnv_written[f][i].total_reads
    /\ \A r \in FormattedRegions : RatLess(RatOfInt(0), Denominator(r))

\* C19 witness: a row merged from a region that lost both copies and a region
\* that gained one, both at prevalence 1, scaled by a confidence of 1/2 to
\* counts above zero.
C19_Witness ==
  /\ CnvsWritten
  /\ cnv_confidence = Rat(1, 2)
  /\ \E i \in DOMAIN cnv_written[1] :
       /\ Len(cnv_written[1][i].lines) = 2
       /\ \E l \in Range(cnv_written[1][i].lines) :
            RegionOfLine(l).major_cn + RegionOfLine(l).minor_cn = 0
       /\ \E l \in Range(cnv_written[1][i].lines) :
            RegionOfLine(l).major_cn + RegionOfLine(l).minor_cn = 3
       /\ 0 < cnv_written[1][i].ref_reads
       /\ cnv_written[1][i].ref_reads < cnv_written[1][i].total_reads

(***************************************************************************)
(* Claims about the walk of the block filter (SpecCnv).                     *)
(***************************************************************************)
\* The position in reg of the region read from a line.
IndexOfLine(reg, line) == CHOOSE i \in DOMAIN reg : reg[i].line = line

\* C20: when the walk of _filter_multiple_abnormal_cn_regions has ended on a
\* chromosome, its iterations have examined the indices 1, 2, ..., len(reg)
\* in that order, each once and at least one per iteration; an iteration
\* that examined several regions examined a block of equal coordinates; and
\* the retained regions are regions of the list, each once, in list order.
C20_WalkClassifiesEachRegionOnce ==
  FilterDone =>
    \A chrom \in DOMAIN ValueOf(good_regions).steps :
      LET reg == ValueOf(cn_regions)[chrom]
          steps == ValueOf(good_regions).steps[chrom]
          good == Lookup(ValueOf(good_regions).good, chrom)
      IN /\ \A k \in DOMAIN steps : steps[k] # <<>>
         /\ Concat(steps) = [i \in 1..Len(reg) |-> i]
         /\ \A k \in DOMAIN steps : \A i \in DOMAIN steps[k] :
              /\ reg[steps[k][i]].start = reg[steps[k][1]].start
              /\ reg[steps[k][i]].end = reg[steps[k][1]].end
         /\ \A i \in DOMAIN good : good[i] \in Range(reg)
         /\ \A i, j \in DOMAIN good :
              i < j => IndexOfLine(reg, good[i].line) < IndexOfLine(reg, good[j].line)

\* C20 witness: a chromosome of three regions walked in two iterations, a
\* block of two and a single region, of which two regions are retained.
C20_Witness ==
  /\ FilterDone
  /\ \E chrom \in DOMAIN ValueOf(good_regions).steps :
       /\ Len(ValueOf(cn_regions)[chrom]) = 3
       /\ ValueOf(good_regions).steps[chrom] = <<<<1, 2>>, <<3>>>>
       /\ Len(Lookup(ValueOf(good_regions).good, chrom)) = 2

====
